---- MODULE Spec2Model ----
(***************************************************************************)
(* Model of the Dr_chatbot specialist orchestration engine:                *)
(*   advanced_prompts.py   QueryClassifier.classify_query                  *)
(*   multi_agent_system.py BaseAgent.process_query,                        *)
(*                         MultiAgentOrchestrator.route_query,             *)
(*                         process_consultation, get_multi_agent_consensus *)
(* quality_checker.py (RepromptingSystem) and advanced_rag.py are imported *)
(* by multi_agent_system.py but their code is not available; the           *)
(* reprompting loop and the retrieval outcome are modelled from spec.md.   *)
(***************************************************************************)
EXTENDS Integers, Sequences, FiniteSets, TLC

VARIABLES
  question,      \* user_question, a sequence of characters
  classified,    \* result of a direct classify_query call ("none" before it)
  op,            \* orchestrator entry point: "consult" or "consensus"
  opc,           \* position inside the orchestrator method
  context,       \* context returned by rag_pipeline.retrieve_and_rank
  retrievals,    \* number of retrieve_and_rank calls made
  agent,         \* AgentType of the agent whose process_query is running
  apc,           \* position inside BaseAgent.process_query
  loopState,     \* state of the reprompting loop of the current invocation
  invocation,    \* number of process_query invocations started
  calls,         \* completion-provider calls made by the current invocation
  current,       \* text produced by the latest successful provider call (0: none)
  history,       \* attempt history of the current invocation: <<[text, score]>>
  lastError,     \* kind of the provider error raised in the current invocation
  loopResult,    \* what improve_response_with_reprompting returned
  responses,     \* AgentResponses returned by process_query, in call order
  result,        \* value returned by the orchestrator method
  maxAttempts,   \* RepromptingSystem attempt budget
  top_agents,    \* top_agents argument of get_multi_agent_consensus
  invoked,       \* process_query calls made so far: <<[agent, context]>>
  cancelledAt,   \* provider calls made when the caller's deadline expired (-1: not expired)
  config,        \* shared configuration: keyword table, persona text, templates
  requests,      \* concurrent requests reading the shared configuration
  extraction,    \* one _extract_reasoning_steps call: its argument and result
  reprompting,   \* one get_reprompt_template call beside the original prompt
  chat,          \* one /chat request: locals of advanced_chat_endpoint
  setup          \* one start-up script run: index, locals, loads made

vars == <<question, classified, op, opc, context, retrievals, agent, apc,
          loopState, invocation, calls, current, history, lastError, loopResult,
          responses, result, maxAttempts, top_agents, invoked, cancelledAt,
          config, requests, extraction, reprompting, chat, setup>>

\* the variables of the start-up scripts, the /chat handler and the helpers
scriptVars == <<extraction, reprompting, chat, setup>>

---------------------------------------------------------------------------
(* Bounds *)

MaxWords == 3
MaxAttemptsBound == 3
MaxTopAgents == 3

---------------------------------------------------------------------------
(* Strings are sequences of one-character strings. *)

LowerMap ==
    ("A" :> "a") @@
    ("B" :> "b") @@
    ("C" :> "c") @@
    ("D" :> "d") @@
    ("E" :> "e") @@
    ("F" :> "f") @@
    ("G" :> "g") @@
    ("H" :> "h") @@
    ("I" :> "i") @@
    ("J" :> "j") @@
    ("K" :> "k") @@
    ("L" :> "l") @@
    ("M" :> "m") @@
    ("N" :> "n") @@
    ("O" :> "o") @@
    ("P" :> "p") @@
    ("Q" :> "q") @@
    ("R" :> "r") @@
    ("S" :> "s") @@
    ("T" :> "t") @@
    ("U" :> "u") @@
    ("V" :> "v") @@
    ("W" :> "w") @@
    ("X" :> "x") @@
    ("Y" :> "y") @@
    ("Z" :> "z")

\* str.lower() restricted to ASCII
LowerChar(c) == IF c \in DOMAIN LowerMap THEN LowerMap[c] ELSE c

\* variant: the question is matched without lowercasing
LowerOmitted(s) == s

Lower(s) == [i \in 1..Len(s) |-> LowerChar(s[i])]

UpperChar(c) ==
  IF \E u \in DOMAIN LowerMap : LowerMap[u] = c
  THEN CHOOSE u \in DOMAIN LowerMap : LowerMap[u] = c
  ELSE c

\* Python's "k in s" for strings
IsSubstring(k, s) ==
  \E i \in 1..(Len(s) - Len(k) + 1) : SubSeq(s, i, i + Len(k) - 1) = k

---------------------------------------------------------------------------
(* advanced_prompts.py *)

QueryType == {"diagnosis", "treatment", "prevention", "emergency", "general", "procedure"}

\* insertion order of the classification_keywords dict
KeywordOrder == <<"DIAGNOSIS", "TREATMENT", "PREVENTION", "EMERGENCY", "PROCEDURE">>

QueryTypeValue ==
  ("DIAGNOSIS" :> "diagnosis") @@ ("TREATMENT" :> "treatment") @@
  ("PREVENTION" :> "prevention") @@ ("EMERGENCY" :> "emergency") @@
  ("PROCEDURE" :> "procedure")

classification_keywords ==
  ("DIAGNOSIS" :>
     <<<<"p","a","i","n">>,
       <<"h","u","r","t">>,
       <<"a","c","h","e">>,
       <<"s","w","o","l","l","e","n">>,
       <<"b","l","e","e","d","i","n","g">>,
       <<"s","e","n","s","i","t","i","v","e">>,
       <<"s","y","m","p","t","o","m","s">>,
       <<"w","h","a","t","'","s"," ","w","r","o","n","g">>,
       <<"d","i","a","g","n","o","s","i","s">>,
       <<"p","r","o","b","l","e","m">>,
       <<"i","s","s","u","e">>,
       <<"c","o","n","c","e","r","n">>,
       <<"f","e","e","l","s"," ","l","i","k","e">>>>) @@
  ("TREATMENT" :>
     <<<<"t","r","e","a","t","m","e","n","t">>,
       <<"f","i","x">>,
       <<"r","e","p","a","i","r">>,
       <<"c","u","r","e">>,
       <<"h","e","a","l">>,
       <<"o","p","t","i","o","n","s">>,
       <<"w","h","a","t"," ","c","a","n"," ","b","e"," ","d","o","n","e">>,
       <<"h","o","w"," ","t","o"," ","t","r","e","a","t">>,
       <<"t","h","e","r","a","p","y">>,
       <<"m","e","d","i","c","a","t","i","o","n">>,
       <<"s","u","r","g","e","r","y">>>>) @@
  ("PREVENTION" :>
     <<<<"p","r","e","v","e","n","t">>,
       <<"a","v","o","i","d">>,
       <<"s","t","o","p">>,
       <<"c","a","r","e">>,
       <<"m","a","i","n","t","e","n","a","n","c","e">>,
       <<"h","y","g","i","e","n","e">>,
       <<"b","r","u","s","h">>,
       <<"f","l","o","s","s">>,
       <<"d","i","e","t">>,
       <<"h","a","b","i","t","s">>,
       <<"r","o","u","t","i","n","e">>,
       <<"p","r","o","t","e","c","t">>>>) @@
  ("EMERGENCY" :>
     <<<<"e","m","e","r","g","e","n","c","y">>,
       <<"u","r","g","e","n","t">>,
       <<"s","e","v","e","r","e">>,
       <<"u","n","b","e","a","r","a","b","l","e">>,
       <<"c","a","n","'","t"," ","s","l","e","e","p">>,
       <<"s","w","e","l","l","i","n","g">>,
       <<"i","n","f","e","c","t","i","o","n">>,
       <<"t","r","a","u","m","a">>,
       <<"a","c","c","i","d","e","n","t">>,
       <<"b","r","o","k","e","n">>,
       <<"k","n","o","c","k","e","d"," ","o","u","t">>>>) @@
  ("PROCEDURE" :>
     <<<<"p","r","o","c","e","d","u","r","e">>,
       <<"s","u","r","g","e","r","y">>,
       <<"o","p","e","r","a","t","i","o","n">>,
       <<"i","m","p","l","a","n","t">>,
       <<"c","r","o","w","n">>,
       <<"f","i","l","l","i","n","g">>,
       <<"r","o","o","t"," ","c","a","n","a","l">>,
       <<"e","x","t","r","a","c","t","i","o","n">>,
       <<"c","l","e","a","n","i","n","g">>,
       <<"w","h","i","t","e","n","i","n","g">>,
       <<"b","r","a","c","e","s">>>>)

\* sum(1 for keyword in keywords if keyword in question_lower)
KeywordScore(cat, question_lower) ==
  Cardinality({i \in 1..Len(classification_keywords[cat]) :
                 IsSubstring(classification_keywords[cat][i], question_lower)})

HasEmergencyKeyword(question_lower) ==
  \E i \in 1..Len(classification_keywords["EMERGENCY"]) :
     IsSubstring(classification_keywords["EMERGENCY"][i], question_lower)

MaxScore(scores) ==
  CHOOSE m \in {scores[c] : c \in DOMAIN scores} :
     \A c \in DOMAIN scores : scores[c] <= m

\* variant: the last key with the maximal value wins
LastMaxKey(scores) ==
  LET i == CHOOSE j \in 1..Len(KeywordOrder) :
              /\ scores[KeywordOrder[j]] = MaxScore(scores)
              /\ \A k \in (j + 1)..Len(KeywordOrder) :
                    scores[KeywordOrder[k]] # MaxScore(scores)
  IN KeywordOrder[i]

\* max(scores, key=scores.get): the first key, in dict order, with the maximal value
FirstMaxKey(scores) ==
  LET i == CHOOSE j \in 1..Len(KeywordOrder) :
              /\ scores[KeywordOrder[j]] = MaxScore(scores)
              /\ \A k \in 1..(j - 1) : scores[KeywordOrder[k]] # MaxScore(scores)
  IN KeywordOrder[i]

\* variant: no emergency short-circuit, every category competes on its count
classify_query_ScoreOnly(user_question) ==
  LET question_lower == Lower(user_question)
      scores == [c \in {KeywordOrder[i] : i \in 1..Len(KeywordOrder)} |->
                   KeywordScore(c, question_lower)]
  IN IF MaxScore(scores) > 0 THEN QueryTypeValue[FirstMaxKey(scores)]
     ELSE "general"

classify_query(user_question) ==
  LET question_lower == Lower(user_question)
      scores == [c \in {KeywordOrder[i] : i \in 1..Len(KeywordOrder)} |->
                   KeywordScore(c, question_lower)]
  IN IF HasEmergencyKeyword(question_lower) THEN "emergency"
     ELSE IF MaxScore(scores) > 0 THEN QueryTypeValue[FirstMaxKey(scores)]
     ELSE "general"

---------------------------------------------------------------------------
(* Prompt texts are sequences of blocks [kind, text]; a text is a sequence *)
(* of strings.                                                             *)

\* ChainOfThoughtPrompts._get_base_persona
base_persona == <<"You are Dr. Meenakshi Tomar, DDS">>

\* ChainOfThoughtPrompts._get_reasoning_templates: one template per QueryType
reasoning_templates == [t \in QueryType |-> <<"RESPONSE FORMAT", t>>]

\* the fields set by QueryClassifier.__init__ and ChainOfThoughtPrompts.__init__
StartupConfig ==
  [classification_keywords |-> classification_keywords,
   base_persona            |-> base_persona,
   reasoning_templates     |-> reasoning_templates]

Block(kind, text) == [kind |-> kind, text |-> text]

\* QueryClassifier.classify_query on the instance self
classify_query_self(self, user_question) ==
  LET question_lower == Lower(user_question)
      keywords == self.classification_keywords
      hit(cat) == {i \in 1..Len(keywords[cat]) :
                     IsSubstring(keywords[cat][i], question_lower)}
      scores == [c \in {KeywordOrder[i] : i \in 1..Len(KeywordOrder)} |->
                   Cardinality(hit(c))]
  IN IF hit("EMERGENCY") # {} THEN "emergency"
     ELSE IF MaxScore(scores) > 0 THEN QueryTypeValue[FirstMaxKey(scores)]
     ELSE "general"

\* self.reasoning_templates.get(query_type, self.reasoning_templates[GENERAL])
reasoning_template(self, query_type) ==
  IF query_type \in DOMAIN self.reasoning_templates
  THEN self.reasoning_templates[query_type]
  ELSE self.reasoning_templates["general"]

\* variant: the prompt numbers the call among the calls answered so far
get_chain_of_thought_prompt_Numbered(self, query_type, user_question, ctx) ==
  <<Block("persona", self.base_persona),
    Block("question", user_question)>>
  \o (IF ctx # "" THEN <<Block("context", <<ctx>>)>> ELSE <<>>)
  \o <<Block("template", reasoning_template(self, query_type)),
       Block("requirements", <<"CRITICAL RESPONSE REQUIREMENTS",
                               "FORMATTING EXAMPLES">>),
       Block("call", [i \in {j \in DOMAIN requests : requests[j].pc = "done"}
                        |-> "answered"])>>

\* variant: the context header is written whatever the context
get_chain_of_thought_prompt_AlwaysContext(self, query_type, user_question, ctx) ==
  <<Block("persona", self.base_persona),
    Block("question", user_question),
    Block("context", <<ctx>>),
    Block("template", reasoning_template(self, query_type)),
    Block("requirements", <<"CRITICAL RESPONSE REQUIREMENTS",
                            "FORMATTING EXAMPLES">>)>>

\* ChainOfThoughtPrompts.get_chain_of_thought_prompt on the instance self
get_chain_of_thought_prompt(self, query_type, user_question, ctx) ==
  <<Block("persona", self.base_persona),
    Block("question", user_question)>>
  \o (IF ctx # "" THEN <<Block("context", <<ctx>>)>> ELSE <<>>)
  \o <<Block("template", reasoning_template(self, query_type)),
       Block("requirements", <<"CRITICAL RESPONSE REQUIREMENTS",
                               "FORMATTING EXAMPLES">>)>>

\* BaseAgent.get_specialist_persona: _get_base_persona() plus the specialization
get_specialist_persona(a) ==
  <<Block("persona", base_persona), Block("specialization", <<a>>)>>

---------------------------------------------------------------------------
(* Input questions: up to MaxWords words joined by single spaces, written  *)
(* in lower case, in upper case, or with a capital first letter.           *)

Vocabulary ==
  << <<"p","a","i","n">>,
     <<"h","u","r","t","s">>,
     <<"f","i","x">>,
     <<"s","u","r","g","e","r","y">>,
     <<"b","r","u","s","h">>,
     <<"c","r","o","w","n">>,
     <<"u","n","b","r","o","k","e","n">>,
     <<"t","o","o","t","h">> >>

RECURSIVE Join(_)
Join(ws) ==
  IF Len(ws) = 0 THEN <<>>
  ELSE IF Len(ws) = 1 THEN Vocabulary[ws[1]]
  ELSE Vocabulary[ws[1]] \o <<" ">> \o Join(Tail(ws))

Upper(s) == [i \in 1..Len(s) |-> UpperChar(s[i])]

Capitalise(s) == [i \in 1..Len(s) |-> IF i = 1 THEN UpperChar(s[i]) ELSE s[i]]

WordLists == UNION {[1..n -> 1..Len(Vocabulary)] : n \in 0..MaxWords}

Questions ==
  {Join(ws) : ws \in WordLists} \cup {Upper(Join(ws)) : ws \in WordLists}
    \cup {Capitalise(Join(ws)) : ws \in WordLists}

---------------------------------------------------------------------------
(* multi_agent_system.py *)

AgentType == {"diagnostic", "treatment", "prevention", "emergency", "general"}

\* variant: no PROCEDURE entry, so routing_map.get falls back to GENERAL
routing_map_ProcedureUnmapped ==
  ("diagnosis" :> "diagnostic") @@ ("treatment" :> "treatment") @@
  ("prevention" :> "prevention") @@ ("emergency" :> "emergency") @@
  ("procedure" :> "general") @@ ("general" :> "general")

routing_map ==
  ("diagnosis" :> "diagnostic") @@ ("treatment" :> "treatment") @@
  ("prevention" :> "prevention") @@ ("emergency" :> "emergency") @@
  ("procedure" :> "treatment") @@ ("general" :> "general")

\* variant: the classification is ignored and the general agent is selected
route_query_Unrouted(user_question) == "general"

route_query(user_question) == routing_map[classify_query(user_question)]

\* ProviderError kinds raised by client.chat.completions.create
ProviderErrors == {"transient", "rate_limited", "invalid_request"}

\* overall_score values a quality report can carry
Scores == {0, 40, 70, 100}

AcceptThreshold == 70

\* the fixed apology of the except branch / a text produced by provider call n
FallbackMessage == [fallback |-> TRUE, text |-> 0]

GeneratedText(n) == [fallback |-> FALSE, text |-> n]

Max(a, b) == IF a >= b THEN a ELSE b

Min(a, b) == IF a <= b THEN a ELSE b

\* variant: the lower clamp of the confidence is missing
calculate_confidence_NoFloor(quality_scores) ==
  IF Len(quality_scores) = 0 THEN 50
  ELSE LET final_score == quality_scores[Len(quality_scores)]
           attempts == Len(quality_scores)
       IN Min(100, final_score - (attempts - 1) * 10)

\* variant: an empty score history yields confidence 0
calculate_confidence_ZeroOnEmpty(quality_scores) ==
  IF Len(quality_scores) = 0 THEN 0
  ELSE LET final_score == quality_scores[Len(quality_scores)]
           attempts == Len(quality_scores)
       IN Max(10, Min(100, final_score - (attempts - 1) * 10))

\* variant: the attempt penalty is added instead of subtracted
calculate_confidence_Bonus(quality_scores) ==
  IF Len(quality_scores) = 0 THEN 50
  ELSE LET final_score == quality_scores[Len(quality_scores)]
           attempts == Len(quality_scores)
       IN Max(10, Min(100, final_score + (attempts - 1) * 10))

\* confidence in hundredths: max(0.1, min(1.0, final_score/100 - (attempts-1)*0.1))
calculate_confidence(quality_scores) ==
  IF Len(quality_scores) = 0 THEN 50
  ELSE LET final_score == quality_scores[Len(quality_scores)]
           attempts == Len(quality_scores)
       IN Max(10, Min(100, final_score - (attempts - 1) * 10))

\* variant: the initial response is returned instead of the improved one
SuccessResponse_Initial(agent_type, r) ==
  [content       |-> GeneratedText(1),
   confidence    |-> calculate_confidence(r.quality_scores),
   agent_type    |-> agent_type,
   quality_score |-> IF Len(r.quality_scores) > 0
                     THEN r.quality_scores[Len(r.quality_scores)] ELSE 0,
   attempts_used |-> r.attempts]

\* the AgentResponse of the try branch, from the loop's
\* (final_response, attempts, quality_scores)
SuccessResponse(agent_type, r) ==
  [content       |-> GeneratedText(r.final_response),
   confidence    |-> calculate_confidence(r.quality_scores),
   agent_type    |-> agent_type,
   quality_score |-> IF Len(r.quality_scores) > 0
                     THEN r.quality_scores[Len(r.quality_scores)] ELSE 0,
   attempts_used |-> r.attempts]

\* variant: the except branch marks the response as coming from the general agent
FallbackResponse_MarkedGeneral(agent_type) ==
  [content       |-> FallbackMessage,
   confidence    |-> 0,
   agent_type    |-> "general",
   quality_score |-> 0,
   attempts_used |-> 1]

\* the AgentResponse of the except branch
FallbackResponse(agent_type) ==
  [content       |-> FallbackMessage,
   confidence    |-> 0,
   agent_type    |-> agent_type,
   quality_score |-> 0,
   attempts_used |-> 1]

\* variant: the candidates are compared by quality_score alone
BestResponse_ByQuality(agent_responses) ==
  LET key(r) == r.quality_score
      i == CHOOSE j \in 1..Len(agent_responses) :
             /\ \A k \in 1..Len(agent_responses) :
                   key(agent_responses[k]) <= key(agent_responses[j])
             /\ \A k \in 1..(j - 1) :
                   key(agent_responses[k]) < key(agent_responses[j])
  IN agent_responses[i]

\* variant: among equal keys the last candidate wins
BestResponse_LastMax(agent_responses) ==
  LET key(r) == r.quality_score * r.confidence
      i == CHOOSE j \in 1..Len(agent_responses) :
             /\ \A k \in 1..Len(agent_responses) :
                   key(agent_responses[k]) <= key(agent_responses[j])
             /\ \A k \in (j + 1)..Len(agent_responses) :
                   key(agent_responses[k]) < key(agent_responses[j])
  IN agent_responses[i]

\* max(agent_responses, key=lambda r: r.quality_score * r.confidence):
\* the first response with the maximal key
BestResponse(agent_responses) ==
  LET key(r) == r.quality_score * r.confidence
      i == CHOOSE j \in 1..Len(agent_responses) :
             /\ \A k \in 1..Len(agent_responses) :
                   key(agent_responses[k]) <= key(agent_responses[j])
             /\ \A k \in 1..(j - 1) :
                   key(agent_responses[k]) < key(agent_responses[j])
  IN agent_responses[i]

---------------------------------------------------------------------------
(* Reprompting loop (RepromptingSystem.improve_response_with_reprompting) *)

ScoresOf(h) == [i \in 1..Len(h) |-> h[i].score]

\* the best-scoring attempt of a non-empty history (the earliest among equals)
BestAttempt(h) ==
  LET i == CHOOSE j \in 1..Len(h) :
             /\ \A k \in 1..Len(h) : h[k].score <= h[j].score
             /\ \A k \in 1..(j - 1) : h[k].score < h[j].score
  IN h[i]

LastAttempt(h) == h[Len(h)]

LoopReturn(attempt, h) ==
  [final_response |-> attempt.text, attempts |-> Len(h), quality_scores |-> ScoresOf(h)]

---------------------------------------------------------------------------
(* Questions put to the orchestrator: one per route *)

ConsultQuestions ==
  { <<>>,
    Join(<<8>>),
    Capitalise(Join(<<1, 8>>)),
    Join(<<3>>),
    Upper(Join(<<5>>)),
    Join(<<6, 8>>),
    Join(<<1, 7>>) }

---------------------------------------------------------------------------
(* Initial states *)

Idle ==
  /\ classified = "none"
  /\ context = "none"
  /\ retrievals = 0
  /\ agent = "none"
  /\ apc = "idle"
  /\ loopState = "Idle"
  /\ invocation = 0
  /\ calls = 0
  /\ current = 0
  /\ history = <<>>
  /\ lastError = "none"
  /\ loopResult = <<>>
  /\ responses = <<>>
  /\ result = <<>>
  /\ invoked = <<>>
  /\ cancelledAt = -1
  /\ config = StartupConfig
  /\ requests = <<>>

\* no helper call, /chat request or start-up script is in progress
ScriptsIdle ==
  /\ extraction = <<>>
  /\ reprompting = <<>>
  /\ chat = <<>>
  /\ setup = <<>>

Init ==
  /\ question \in ConsultQuestions
  /\ op \in {"consult", "consensus"}
  /\ opc = "retrieve"
  /\ maxAttempts \in 1..MaxAttemptsBound
  /\ top_agents \in IF op = "consensus" THEN 1..MaxTopAgents ELSE {2}
  /\ Idle
  /\ ScriptsIdle

InitClassify ==
  /\ question \in Questions
  /\ op = "classify"
  /\ opc = "idle"
  /\ maxAttempts = 1
  /\ top_agents = 2
  /\ Idle
  /\ ScriptsIdle

---------------------------------------------------------------------------
(* Actions *)

\* a direct call of QueryClassifier.classify_query
Classify ==
  /\ op = "classify"
  /\ classified = "none"
  /\ classified' = classify_query(question)
  /\ UNCHANGED <<question, op, opc, context, retrievals, agent, apc, loopState,
                 invocation, calls, current, history, lastError, loopResult,
                 responses, result, maxAttempts, top_agents, invoked,
                 cancelledAt, config, requests, scriptVars>>

\* rag_pipeline.retrieve_and_rank returns (an empty context is valid)
RetrieveAndRank ==
  /\ op \in {"consult", "consensus"}
  /\ opc = "retrieve"
  /\ \E c \in {"", "ctx"} : context' = c
  /\ retrievals' = retrievals + 1
  /\ opc' = "route"
  /\ UNCHANGED <<question, classified, op, agent, apc, loopState, invocation,
                 calls, current, history, lastError, loopResult, responses,
                 result, maxAttempts, top_agents, invoked,
                 cancelledAt, config, requests, scriptVars>>

\* rag_pipeline.retrieve_and_rank raises; the orchestrator has no handler
RetrieveAndRankRaises ==
  /\ op \in {"consult", "consensus"}
  /\ opc = "retrieve"
  /\ retrievals' = retrievals + 1
  /\ opc' = "raised"
  /\ UNCHANGED <<question, classified, op, context, agent, apc, loopState,
                 invocation, calls, current, history, lastError, loopResult,
                 responses, result, maxAttempts, top_agents, invoked,
                 cancelledAt, config, requests, scriptVars>>

\* variant: each agent composes with the template of its own type
full_prompt_OwnTemplate(a, user_question, ctx) ==
  get_specialist_persona(a) \o
  get_chain_of_thought_prompt(config, a, user_question, ctx)

\* process_query with query_type None: the question is classified by a new
\* QueryClassifier and the prompt is the specialist persona followed by the
\* chain-of-thought prompt of the classified type
full_prompt(a, user_question, ctx) ==
  get_specialist_persona(a) \o
  get_chain_of_thought_prompt(config, classify_query(user_question),
                              user_question, ctx)

\* entry of process_query on the agent of type a, up to the try block
StartProcessQuery(a, ctx) ==
  /\ agent' = a
  /\ invoked' = Append(invoked, [agent |-> a, context |-> ctx,
                                 full_prompt |-> full_prompt(a, question, ctx)])
  /\ apc' = "generate"
  /\ loopState' = "Idle"
  /\ invocation' = invocation + 1
  /\ calls' = 0
  /\ current' = 0
  /\ history' = <<>>
  /\ lastError' = "none"
  /\ loopResult' = <<>>

\* route_query and the call of the selected agent
RouteQuery ==
  /\ opc = "route"
  /\ StartProcessQuery(route_query(question), context)
  /\ opc' = "primary"
  /\ UNCHANGED <<question, classified, op, context, retrievals, responses,
                 result, maxAttempts, top_agents, cancelledAt, config, requests, scriptVars>>

\* variant: the loop generates its own first round and drops the initial response
InitialGeneration_Regenerated ==
  /\ apc = "generate"
  /\ calls' = calls + 2
  /\ current' = calls + 2
  /\ apc' = "loop"
  /\ loopState' = "Scoring"
  /\ UNCHANGED <<question, classified, op, opc, context, retrievals, agent,
                 invocation, history, lastError, loopResult, responses, result,
                 maxAttempts, top_agents, invoked,
                 cancelledAt, config, requests, scriptVars>>

\* the initial client.chat.completions.create of process_query succeeds
InitialGeneration ==
  /\ apc = "generate"
  /\ calls' = calls + 1
  /\ current' = calls + 1
  /\ apc' = "loop"
  /\ loopState' = "Scoring"
  /\ UNCHANGED <<question, classified, op, opc, context, retrievals, agent,
                 invocation, history, lastError, loopResult, responses, result,
                 maxAttempts, top_agents, invoked,
                 cancelledAt, config, requests, scriptVars>>

\* the initial client.chat.completions.create raises
InitialGenerationRaises ==
  /\ apc = "generate"
  /\ \E e \in ProviderErrors : lastError' = e
  /\ calls' = calls + 1
  /\ apc' = "except"
  /\ UNCHANGED <<question, classified, op, opc, context, retrievals, agent,
                 loopState, invocation, current, history, loopResult,
                 responses, result, maxAttempts, top_agents, invoked,
                 cancelledAt, config, requests, scriptVars>>

\* the loop scores the current text and decides: accept, reprompt or give up
ScoreAttempt ==
  /\ apc = "loop"
  /\ loopState = "Scoring"
  /\ \E score \in Scores :
       LET h == Append(history, [text |-> current, score |-> score])
       IN /\ history' = h
          /\ IF score >= AcceptThreshold
             THEN /\ loopState' = "Accepted"
                  /\ loopResult' = <<LoopReturn(LastAttempt(h), h)>>
             ELSE IF Len(h) < maxAttempts
             THEN /\ loopState' = "Reprompting"
                  /\ loopResult' = loopResult
             ELSE /\ loopState' = "Exhausted"
                  /\ loopResult' = <<LoopReturn(BestAttempt(h), h)>>
  /\ UNCHANGED <<question, classified, op, opc, context, retrievals, agent, apc,
                 invocation, calls, current, lastError, responses, result,
                 maxAttempts, top_agents, invoked,
                 cancelledAt, config, requests, scriptVars>>

\* the provider call of a reprompting round succeeds
Reprompt ==
  /\ apc = "loop"
  /\ loopState = "Reprompting"
  /\ calls' = calls + 1
  /\ current' = calls + 1
  /\ loopState' = "Scoring"
  /\ UNCHANGED <<question, classified, op, opc, context, retrievals, agent, apc,
                 invocation, history, lastError, loopResult, responses, result,
                 maxAttempts, top_agents, invoked,
                 cancelledAt, config, requests, scriptVars>>

\* the provider call of a reprompting round fails: a transient or rate-limit
\* error ends the loop with the last successful attempt, an invalid request
\* propagates to process_query
RepromptRaises ==
  /\ apc = "loop"
  /\ loopState = "Reprompting"
  /\ calls' = calls + 1
  /\ \E e \in ProviderErrors :
       /\ lastError' = e
       /\ IF e = "invalid_request"
          THEN /\ loopState' = "Failed"
               /\ apc' = "except"
               /\ loopResult' = loopResult
          ELSE /\ loopState' = "Aborted"
               /\ apc' = apc
               /\ loopResult' = <<LoopReturn(LastAttempt(history), history)>>
  /\ UNCHANGED <<question, classified, op, opc, context, retrievals, agent,
                 invocation, current, history, responses, result, maxAttempts, top_agents, invoked,
                 cancelledAt, config, requests, scriptVars>>

\* process_query after the loop returned: build and return the AgentResponse
ReturnAgentResponse ==
  /\ apc = "loop"
  /\ loopState \in {"Accepted", "Exhausted", "Aborted"}
  /\ responses' = Append(responses, SuccessResponse(agent, loopResult[1]))
  /\ apc' = "returned"
  /\ UNCHANGED <<question, classified, op, opc, context, retrievals, agent,
                 loopState, invocation, calls, current, history, lastError,
                 loopResult, result, maxAttempts, top_agents, invoked,
                 cancelledAt, config, requests, scriptVars>>

\* variant: the except branch hands out the text generated before the error
AgentFallback_KeepsText ==
  /\ apc = "except"
  /\ responses' = Append(responses,
        IF current > 0
        THEN [FallbackResponse(agent) EXCEPT !.content = GeneratedText(current)]
        ELSE FallbackResponse(agent))
  /\ apc' = "returned"
  /\ UNCHANGED <<question, classified, op, opc, context, retrievals, agent,
                 loopState, invocation, calls, current, history, lastError,
                 loopResult, result, maxAttempts, top_agents, invoked,
                 cancelledAt, config, requests, scriptVars>>

\* the except branch of process_query
AgentFallback ==
  /\ apc = "except"
  /\ responses' = Append(responses, FallbackResponse(agent))
  /\ apc' = "returned"
  /\ UNCHANGED <<question, classified, op, opc, context, retrievals, agent,
                 loopState, invocation, calls, current, history, lastError,
                 loopResult, result, maxAttempts, top_agents, invoked,
                 cancelledAt, config, requests, scriptVars>>

\* process_consultation returns the selected agent's response
ReturnConsultation ==
  /\ op = "consult"
  /\ opc = "primary"
  /\ apc = "returned"
  /\ result' = <<responses[Len(responses)]>>
  /\ opc' = "done"
  /\ UNCHANGED <<question, classified, op, context, retrievals, agent, apc,
                 loopState, invocation, calls, current, history, lastError,
                 loopResult, responses, maxAttempts, top_agents, invoked,
                 cancelledAt, config, requests, scriptVars>>

\* variant: the secondary agent is called without the retrieved context
StartSecondary_DefaultContext ==
  /\ op = "consensus"
  /\ opc = "primary"
  /\ apc = "returned"
  /\ agent # "general"
  /\ StartProcessQuery("general", "")
  /\ opc' = "secondary"
  /\ UNCHANGED <<question, classified, op, context, retrievals, responses,
                 result, maxAttempts, top_agents, cancelledAt, config, requests, scriptVars>>

\* get_multi_agent_consensus runs the general agent after a non-general primary
StartSecondary ==
  /\ op = "consensus"
  /\ opc = "primary"
  /\ apc = "returned"
  /\ agent # "general"
  /\ StartProcessQuery("general", context)
  /\ opc' = "secondary"
  /\ UNCHANGED <<question, classified, op, context, retrievals, responses,
                 result, maxAttempts, top_agents, cancelledAt, config, requests, scriptVars>>

\* variant: the selection runs as soon as the primary response is available
SelectBest_EarlyExit ==
  /\ op = "consensus"
  /\ opc \in {"primary", "secondary"}
  /\ Len(responses) >= 1
  /\ result' = <<BestResponse(responses)>>
  /\ opc' = "done"
  /\ UNCHANGED <<question, classified, op, context, retrievals, agent, apc,
                 loopState, invocation, calls, current, history, lastError,
                 loopResult, responses, maxAttempts, top_agents, invoked,
                 cancelledAt, config, requests, scriptVars>>

\* get_multi_agent_consensus selects and returns the best response
SelectBest ==
  /\ op = "consensus"
  /\ apc = "returned"
  /\ \/ opc = "secondary"
     \/ opc = "primary" /\ agent = "general"
  /\ result' = <<BestResponse(responses)>>
  /\ opc' = "done"
  /\ UNCHANGED <<question, classified, op, context, retrievals, agent, apc,
                 loopState, invocation, calls, current, history, lastError,
                 loopResult, responses, maxAttempts, top_agents, invoked,
                 cancelledAt, config, requests, scriptVars>>

Next ==
  \/ RetrieveAndRank
  \/ RetrieveAndRankRaises
  \/ RouteQuery
  \/ InitialGeneration
  \/ InitialGenerationRaises
  \/ ScoreAttempt
  \/ Reprompt
  \/ RepromptRaises
  \/ ReturnAgentResponse
  \/ AgentFallback
  \/ ReturnConsultation
  \/ StartSecondary
  \/ SelectBest

Spec == Init /\ [][Next]_vars

NextClassify == Classify

SpecClassify == InitClassify /\ [][NextClassify]_vars

---------------------------------------------------------------------------
(* process_consultation with a caller whose deadline may expire meanwhile *)

InitCancel == Init /\ op = "consult"

\* the caller's deadline expires while a round is in flight; neither
\* process_consultation nor process_query takes or reads such a signal
Cancel ==
  /\ op = "consult"
  /\ opc = "primary"
  /\ apc = "loop"
  /\ loopState \in {"Scoring", "Reprompting"}
  /\ cancelledAt = -1
  /\ cancelledAt' = calls
  /\ UNCHANGED <<question, classified, op, opc, context, retrievals, agent, apc,
                 loopState, invocation, calls, current, history, lastError,
                 loopResult, responses, result, maxAttempts, top_agents,
                 invoked, config, requests, scriptVars>>

NextCancel ==
  \/ Cancel
  \/ RetrieveAndRank
  \/ RetrieveAndRankRaises
  \/ RouteQuery
  \/ InitialGeneration
  \/ InitialGenerationRaises
  \/ ScoreAttempt
  \/ Reprompt
  \/ RepromptRaises
  \/ ReturnAgentResponse
  \/ AgentFallback
  \/ ReturnConsultation

SpecCancel == InitCancel /\ [][NextCancel]_vars

---------------------------------------------------------------------------
(* Several questions handled at once on one orchestrator: the calls read   *)
(* the fields of the shared QueryClassifier and of one agent's             *)
(* ChainOfThoughtPrompts, held in config.                                  *)

NumRequests == 2

SharedQuestions == {Capitalise(Join(<<1, 8>>)), Join(<<1, 7>>)}

NewRequest(kind, query_type, user_question, ctx) ==
  [kind |-> kind, query_type |-> query_type, user_question |-> user_question,
   context |-> ctx, pc |-> "called", specialist_persona |-> <<>>,
   category |-> "none", prompt |-> <<>>]

RequestInputs ==
  {NewRequest("classify_query", "none", q, "") : q \in SharedQuestions}
  \cup {NewRequest("get_chain_of_thought_prompt", t, q, c) :
          t \in {"diagnosis", "procedure"}, q \in SharedQuestions,
          c \in {"", "ctx"}}
  \cup {NewRequest("process_query", "none", q, c) :
          q \in SharedQuestions, c \in {"", "ctx"}}
  \cup {NewRequest("new_instance_prompt", t, q, c) :
          t \in {"diagnosis", "procedure"}, q \in SharedQuestions,
          c \in {"", "ctx"}}

InitShared ==
  /\ question = <<>>
  /\ op = "shared"
  /\ opc = "idle"
  /\ maxAttempts = 1
  /\ top_agents = 2
  /\ agent = "general"
  /\ classified = "none"
  /\ context = "none"
  /\ retrievals = 0
  /\ apc = "idle"
  /\ loopState = "Idle"
  /\ invocation = 0
  /\ calls = 0
  /\ current = 0
  /\ history = <<>>
  /\ lastError = "none"
  /\ loopResult = <<>>
  /\ responses = <<>>
  /\ result = <<>>
  /\ invoked = <<>>
  /\ cancelledAt = -1
  /\ config = StartupConfig
  /\ requests \in [1..NumRequests -> RequestInputs]
  /\ ScriptsIdle

SharedUnchanged ==
  UNCHANGED <<question, classified, op, opc, context, retrievals, agent, apc,
              loopState, invocation, calls, current, history, lastError,
              loopResult, responses, result, maxAttempts, top_agents, invoked,
              cancelledAt, scriptVars>>

\* self.query_classifier.classify_query(user_question) of request i
ClassifyCall(i) ==
  /\ requests[i].kind = "classify_query"
  /\ requests[i].pc = "called"
  /\ requests' = [requests EXCEPT
        ![i].category = classify_query_self(config, requests[i].user_question),
        ![i].pc = "done"]
  /\ UNCHANGED config
  /\ SharedUnchanged

\* variant: the template is taken out of the shared table instead of read
ComposeCall_PopsTemplate(i) ==
  /\ requests[i].kind = "get_chain_of_thought_prompt"
  /\ requests[i].pc = "called"
  /\ requests' = [requests EXCEPT
        ![i].prompt = get_chain_of_thought_prompt(config,
                         requests[i].query_type, requests[i].user_question,
                         requests[i].context),
        ![i].pc = "done"]
  /\ config' = [config EXCEPT !.reasoning_templates =
                  [t \in DOMAIN config.reasoning_templates \ {requests[i].query_type}
                     |-> config.reasoning_templates[t]]]
  /\ SharedUnchanged

\* cot_prompts.get_chain_of_thought_prompt(query_type, user_question, context)
\* of request i
ComposeCall(i) ==
  /\ requests[i].kind = "get_chain_of_thought_prompt"
  /\ requests[i].pc = "called"
  /\ requests' = [requests EXCEPT
        ![i].prompt = get_chain_of_thought_prompt(config,
                         requests[i].query_type, requests[i].user_question,
                         requests[i].context),
        ![i].pc = "done"]
  /\ UNCHANGED config
  /\ SharedUnchanged

\* ChainOfThoughtPrompts().get_chain_of_thought_prompt(...) of request i, on an
\* instance constructed for this call: __init__ sets the startup values
ComposeOnNewInstance(i) ==
  /\ requests[i].kind = "new_instance_prompt"
  /\ requests[i].pc = "called"
  /\ requests' = [requests EXCEPT
        ![i].prompt = get_chain_of_thought_prompt(StartupConfig,
                         requests[i].query_type, requests[i].user_question,
                         requests[i].context),
        ![i].pc = "done"]
  /\ UNCHANGED config
  /\ SharedUnchanged

\* process_query of request i with no query_type: a fresh QueryClassifier()
ProcessQueryClassifies(i) ==
  /\ requests[i].kind = "process_query"
  /\ requests[i].pc = "called"
  /\ requests' = [requests EXCEPT
        ![i].query_type = classify_query(requests[i].user_question),
        ![i].pc = "classified"]
  /\ UNCHANGED config
  /\ SharedUnchanged

\* process_query of request i: specialist_persona = self.get_specialist_persona()
ProcessQueryPersona(i) ==
  /\ requests[i].kind = "process_query"
  /\ requests[i].pc = "classified"
  /\ requests' = [requests EXCEPT
        ![i].specialist_persona = get_specialist_persona(agent),
        ![i].pc = "persona"]
  /\ UNCHANGED config
  /\ SharedUnchanged

\* process_query of request i: full_prompt = specialist_persona + cot_prompt
ProcessQueryComposes(i) ==
  /\ requests[i].kind = "process_query"
  /\ requests[i].pc = "persona"
  /\ requests' = [requests EXCEPT
        ![i].prompt = requests[i].specialist_persona \o
                      get_chain_of_thought_prompt(config,
                         requests[i].query_type, requests[i].user_question,
                         requests[i].context),
        ![i].pc = "done"]
  /\ UNCHANGED config
  /\ SharedUnchanged

NextShared ==
  \E i \in 1..NumRequests :
     \/ ClassifyCall(i)
     \/ ComposeCall(i)
     \/ ComposeOnNewInstance(i)
     \/ ProcessQueryClassifies(i)
     \/ ProcessQueryPersona(i)
     \/ ProcessQueryComposes(i)

SpecShared == InitShared /\ [][NextShared]_vars

---------------------------------------------------------------------------
(* BaseAgent._extract_reasoning_steps on its own: the answer is a text of  *)
(* up to MaxLines lines joined by newlines.                                *)

\* the variables of the orchestrator and of the concurrent requests
consultVars == <<question, classified, op, opc, context, retrievals, agent, apc,
                 loopState, invocation, calls, current, history, lastError,
                 loopResult, responses, result, maxAttempts, top_agents,
                 invoked, cancelledAt, config, requests>>

\* the orchestrator is constructed and no call on it is in progress
Quiescent(o) ==
  /\ question = <<>>
  /\ op = o
  /\ opc = "idle"
  /\ maxAttempts = 1
  /\ top_agents = 2
  /\ Idle

MaxLines == 6

Whitespace == {" ", "\t", "\n"}

\* str.strip()
RECURSIVE lstrip(_)
lstrip(s) ==
  IF s # <<>> /\ Head(s) \in Whitespace THEN lstrip(Tail(s)) ELSE s

RECURSIVE rstrip(_)
rstrip(s) ==
  IF s # <<>> /\ s[Len(s)] \in Whitespace
  THEN rstrip(SubSeq(s, 1, Len(s) - 1)) ELSE s

strip(s) == rstrip(lstrip(s))

\* str.startswith(prefix)
startswith(s, prefix) ==
  Len(s) >= Len(prefix) /\ SubSeq(s, 1, Len(prefix)) = prefix

\* response.split('\n'): the pieces between newlines, at least one piece
RECURSIVE split(_, _)
split(s, piece) ==
  IF s = <<>> THEN <<piece>>
  ELSE IF Head(s) = "\n" THEN <<piece>> \o split(Tail(s), <<>>)
  ELSE split(Tail(s), Append(piece, Head(s)))

\* the prefixes of the two startswith tests; "(bullet)" stands for U+2022
NumberPrefixes == {<<"1", ".">>, <<"2", ".">>, <<"3", ".">>, <<"4", ".">>, <<"5", ".">>}
BulletPrefixes == {<<"(bullet)">>, <<"-">>, <<"*">>}

\* the condition of the if statement on the stripped line
IsReasoningLine(line) ==
  \/ \E p \in NumberPrefixes : startswith(line, p)
  \/ \E p \in BulletPrefixes : startswith(line, p)
  \/ IsSubstring(<<"s", "t", "e", "p">>, Lower(line))

\* the for loop: strip every line and keep the ones that pass the test
RECURSIVE CollectSteps(_)
CollectSteps(lines) ==
  IF lines = <<>> THEN <<>>
  ELSE LET line == strip(Head(lines))
       IN (IF IsReasoningLine(line) THEN <<line>> ELSE <<>>)
          \o CollectSteps(Tail(lines))

\* _extract_reasoning_steps: reasoning_steps[:5]
extract_reasoning_steps(response) ==
  LET reasoning_steps == CollectSteps(split(response, <<>>))
  IN SubSeq(reasoning_steps, 1, Min(5, Len(reasoning_steps)))

LineSamples ==
  { <<"1", ".", " ", "a">>,
    <<" ", "-", " ", "b", " ">>,
    <<"6", ".", " ", "c">>,
    <<"N", "e", "x", "t", " ", "S", "T", "E", "P">>,
    <<"p", "l", "a", "i", "n">> }

RECURSIVE JoinLines(_)
JoinLines(ls) ==
  IF Len(ls) = 0 THEN <<>>
  ELSE IF Len(ls) = 1 THEN ls[1]
  ELSE ls[1] \o <<"\n">> \o JoinLines(Tail(ls))

LineLists == UNION {[1..n -> LineSamples] : n \in 0..MaxLines}

InitExtract ==
  /\ Quiescent("extract")
  /\ extraction \in {[lines |-> ls, response |-> JoinLines(ls), pc |-> "called",
                      reasoning_steps |-> <<>>] : ls \in LineLists}
  /\ reprompting = <<>>
  /\ chat = <<>>
  /\ setup = <<>>

\* reasoning_steps = self._extract_reasoning_steps(final_response)
ExtractReasoningSteps ==
  /\ extraction.pc = "called"
  /\ extraction' = [extraction EXCEPT
        !.reasoning_steps = extract_reasoning_steps(extraction.response),
        !.pc = "done"]
  /\ UNCHANGED <<consultVars, reprompting, chat, setup>>

NextExtract == ExtractReasoningSteps

SpecExtract == InitExtract /\ [][NextExtract]_vars

---------------------------------------------------------------------------
(* ChainOfThoughtPrompts.get_reprompt_template beside the prompt composed  *)
(* for the same question                                                   *)

MaxIssues == 2

\* issues_text: one "- issue" line per quality issue, in order
issues_text(quality_issues) ==
  [i \in 1..Len(quality_issues) |-> "- " \o quality_issues[i]]

\* get_reprompt_template: the introduction, the itemised issues, the original
\* response and the fixed list of eight points an improved response must meet
get_reprompt_template(original_response, quality_issues) ==
  <<Block("introduction",
          <<"The previous response had some quality issues that need improvement:">>),
    Block("issues", issues_text(quality_issues)),
    Block("original_response", original_response),
    Block("improvements", <<"Please provide an improved response that:",
                            "1. Has PROPER FORMATTING with line breaks and spacing",
                            "3. Maintains Dr. Meenakshi Tomar's warm, caring persona",
                            "IMPROVED RESPONSE:">>)>>

QualityIssues == {"Response too long", "Missing follow-up question", "No bullet points"}

IssueLists ==
  UNION {[1..n -> QualityIssues] : n \in 0..MaxIssues}

PreviousAnswers == {<<>>, <<"Root canal takes one visit.">>}

InitReprompt ==
  /\ Quiescent("reprompt")
  /\ reprompting \in
       {[query_type |-> t, user_question |-> q, context |-> c,
         original_response |-> r, quality_issues |-> is,
         pc |-> "called", original_prompt |-> <<>>, reprompt |-> <<>>] :
           t \in QueryType, q \in SharedQuestions, c \in {"", "ctx"},
           r \in PreviousAnswers, is \in IssueLists}
  /\ extraction = <<>>
  /\ chat = <<>>
  /\ setup = <<>>

\* the prompt of the first round
ComposeOriginal ==
  /\ reprompting.pc = "called"
  /\ reprompting' = [reprompting EXCEPT
        !.original_prompt = get_chain_of_thought_prompt(StartupConfig,
              reprompting.query_type, reprompting.user_question,
              reprompting.context),
        !.pc = "composed"]
  /\ UNCHANGED <<consultVars, extraction, chat, setup>>

\* the reprompt for the next round, from the previous answer and its issues
ComposeReprompt ==
  /\ reprompting.pc = "composed"
  /\ reprompting' = [reprompting EXCEPT
        !.reprompt = get_reprompt_template(reprompting.original_response,
                                           reprompting.quality_issues),
        !.pc = "done"]
  /\ UNCHANGED <<consultVars, extraction, chat, setup>>

NextReprompt == ComposeOriginal \/ ComposeReprompt

SpecReprompt == InitReprompt /\ [][NextReprompt]_vars

---------------------------------------------------------------------------
(* advanced_app.py: one request to the /chat handler.  chat.session_id is  *)
(* the local variable of that name, "(unbound)" until it is assigned.      *)

TechnicalDifficulties == "I apologize, but I'm experiencing some technical difficulties."

\* request.session_id: None, the empty string or a session id
RequestSessionIds == {"None", "", "s1"}

\* what process_consultation hands back: an answer or the agent's fallback text
ConsultationContents == {"answer", "fallback"}

\* the collaborator calls of the try block, in program order
ChatSteps ==
  <<"resolve_session", "get_conversation", "add_user_message",
    "get_conversation_summary", "process_consultation",
    "add_assistant_message", "save_conversation", "log_chat_interaction",
    "return">>

StepAfter(p) ==
  ChatSteps[1 + CHOOSE i \in 1..(Len(ChatSteps) - 1) : ChatSteps[i] = p]

InitChat ==
  /\ Quiescent("chat")
  /\ chat \in {[request_session_id |-> sid, user_id |-> u,
                pc |-> "resolve_session", session_id |-> "(unbound)",
                messages |-> 0, saved |-> FALSE, logged |-> FALSE,
                content |-> "", raised_at |-> "none", response |-> <<>>] :
                  sid \in RequestSessionIds, u \in {"None", "u1"}}
  /\ extraction = <<>>
  /\ reprompting = <<>>
  /\ setup = <<>>

ChatUnchanged == UNCHANGED <<consultVars, extraction, reprompting, setup>>

\* if request.session_id: session_id = request.session_id
UseRequestSession ==
  /\ chat.pc = "resolve_session"
  /\ chat.request_session_id \notin {"None", ""}
  /\ chat' = [chat EXCEPT !.session_id = chat.request_session_id,
                          !.pc = StepAfter("resolve_session")]
  /\ ChatUnchanged

\* else: session_id = memory_manager.get_session_id(request.user_id)
GetSessionId ==
  /\ chat.pc = "resolve_session"
  /\ chat.request_session_id \in {"None", ""}
  /\ chat' = [chat EXCEPT !.session_id = "session-of-" \o chat.user_id,
                          !.pc = StepAfter("resolve_session")]
  /\ ChatUnchanged

\* conversation = memory_manager.get_conversation(session_id)
GetConversation ==
  /\ chat.pc = "get_conversation"
  /\ chat' = [chat EXCEPT !.pc = StepAfter("get_conversation")]
  /\ ChatUnchanged

\* conversation.add_message(request.message, MessageType.USER)
AddUserMessage ==
  /\ chat.pc = "add_user_message"
  /\ chat' = [chat EXCEPT !.messages = chat.messages + 1,
                          !.pc = StepAfter("add_user_message")]
  /\ ChatUnchanged

\* conversation_context = conversation.get_conversation_summary()
GetConversationSummary ==
  /\ chat.pc = "get_conversation_summary"
  /\ chat' = [chat EXCEPT !.pc = StepAfter("get_conversation_summary")]
  /\ ChatUnchanged

\* agent_response = orchestrator.process_consultation(request.message)
ChatProcessConsultation ==
  /\ chat.pc = "process_consultation"
  /\ \E c \in ConsultationContents :
        chat' = [chat EXCEPT !.content = c,
                             !.pc = StepAfter("process_consultation")]
  /\ ChatUnchanged

\* conversation.add_message(agent_response.content, MessageType.ASSISTANT, ...)
AddAssistantMessage ==
  /\ chat.pc = "add_assistant_message"
  /\ chat' = [chat EXCEPT !.messages = chat.messages + 1,
                          !.pc = StepAfter("add_assistant_message")]
  /\ ChatUnchanged

\* memory_manager.save_conversation(session_id)
SaveConversation ==
  /\ chat.pc = "save_conversation"
  /\ chat' = [chat EXCEPT !.saved = TRUE,
                          !.pc = StepAfter("save_conversation")]
  /\ ChatUnchanged

\* chat_logger.log_chat_interaction(...)
LogChatInteraction ==
  /\ chat.pc = "log_chat_interaction"
  /\ chat' = [chat EXCEPT !.logged = TRUE,
                          !.pc = StepAfter("log_chat_interaction")]
  /\ ChatUnchanged

\* return ChatResponse(response=agent_response.content, session_id=session_id)
ReturnChatResponse ==
  /\ chat.pc = "return"
  /\ chat' = [chat EXCEPT
        !.response = <<[response |-> chat.content, session_id |-> chat.session_id]>>,
        !.pc = "done"]
  /\ ChatUnchanged

\* a statement of the try block raises; the supplied session id is assigned
\* without any call, so that branch cannot raise
ChatStepRaises ==
  /\ chat.pc \in {ChatSteps[i] : i \in 1..Len(ChatSteps)}
  /\ chat.pc = "resolve_session" => chat.request_session_id \in {"None", ""}
  /\ chat' = [chat EXCEPT !.raised_at = chat.pc, !.pc = "except"]
  /\ ChatUnchanged

\* variant: the fallback response never carries the session id
ReturnFallbackResponse_AlwaysError ==
  /\ chat.pc = "except"
  /\ chat' = [chat EXCEPT
        !.response = <<[response |-> TechnicalDifficulties, session_id |-> "error"]>>,
        !.pc = "done"]
  /\ ChatUnchanged

\* except Exception: the fallback ChatResponse, with session_id if it is bound
ReturnFallbackResponse ==
  /\ chat.pc = "except"
  /\ chat' = [chat EXCEPT
        !.response = <<[response |-> TechnicalDifficulties,
                        session_id |-> IF chat.session_id # "(unbound)"
                                       THEN chat.session_id ELSE "error"]>>,
        !.pc = "done"]
  /\ ChatUnchanged

NextChat ==
  \/ UseRequestSession
  \/ GetSessionId
  \/ GetConversation
  \/ AddUserMessage
  \/ GetConversationSummary
  \/ ChatProcessConsultation
  \/ AddAssistantMessage
  \/ SaveConversation
  \/ LogChatInteraction
  \/ ReturnChatResponse
  \/ ChatStepRaises
  \/ ReturnFallbackResponse

SpecChat == InitChat /\ [][NextChat]_vars

---------------------------------------------------------------------------
(* final_load.py and check_chunks.py on the same text of n words: the load *)
(* into an empty index, then the check.  A chunk is kept as its number of  *)
(* words.                                                                  *)

MaxWordCount == 650

chunk_size == 300

\* for i in range(0, len(words), chunk_size): chunks.append(words[i:i + chunk_size])
RECURSIVE BuildChunks(_, _)
BuildChunks(i, n) ==
  IF i >= n THEN <<>>
  ELSE <<Min(i + chunk_size, n) - i>> \o BuildChunks(i + chunk_size, n)

\* variant: a chunk is counted for every started or completed 300 words
total_chunks_OneMore(n) == n \div chunk_size + 1

\* len(words) // chunk_size + (1 if len(words) % chunk_size > 0 else 0)
total_chunks(n) ==
  n \div chunk_size + (IF n % chunk_size > 0 THEN 1 ELSE 0)

InitChunks ==
  /\ Quiescent("chunks")
  /\ setup \in {[words |-> n, pc |-> "load", chunks |-> <<>>, stored |-> 0,
                 expected |-> 0, verdict |-> "none"] : n \in 0..MaxWordCount}
  /\ extraction = <<>>
  /\ reprompting = <<>>
  /\ chat = <<>>

\* load_data_properly: chunk the words, then embed and upsert chunk after
\* chunk; a chunk whose embedding or upsert fails is skipped
LoadChunks ==
  /\ setup.pc = "load"
  /\ LET chunks == BuildChunks(0, setup.words)
     IN \E failed \in 0..Min(1, Len(chunks)) :
           setup' = [setup EXCEPT !.chunks = chunks,
                                  !.stored = Len(chunks) - failed,
                                  !.pc = "check"]
  /\ UNCHANGED <<consultVars, extraction, reprompting, chat>>

\* check_data_chunks: the expected count, then the comparison with the index
CheckChunks ==
  /\ setup.pc = "check"
  /\ LET expected == total_chunks(setup.words)
     IN setup' = [setup EXCEPT
           !.expected = expected,
           !.verdict = IF setup.stored = expected THEN "Perfect match"
                       ELSE IF setup.stored < expected THEN "Missing chunks"
                       ELSE "Extra chunks",
           !.pc = "done"]
  /\ UNCHANGED <<consultVars, extraction, reprompting, chat>>

NextChunks == LoadChunks \/ CheckChunks

SpecChunks == InitChunks /\ [][NextChunks]_vars

---------------------------------------------------------------------------
(* advanced_setup.py: setup_data.  None is <<>>, a number n is <<n>>.      *)

LoadThreshold == 100

\* vector counts an existing "rag-index" may report
StoredCounts == {0, 1, LoadThreshold - 1, LoadThreshold, LoadThreshold + 1}

\* the two values check_data_chunks returns: (None, None) when the text file
\* cannot be read, (len(words), 0) when Pinecone fails or has no "rag-index",
\* (len(words), stored_chunks) otherwise
check_data_chunks(e) ==
  IF ~e.readable THEN [word_count |-> <<>>, chunk_count |-> <<>>]
  ELSE IF e.pinecone_fails \/ e.index = "missing"
       THEN [word_count |-> <<e.words>>, chunk_count |-> <<0>>]
  ELSE [word_count |-> <<e.words>>, chunk_count |-> <<e.stored>>]

\* the truth value Python gives to None or a number
Truthy(v) == v # <<>> /\ v[1] # 0

\* the files and the index the script finds
Environments ==
  {[exists |-> x, readable |-> r, words |-> n, index |-> i, stored |-> st,
    pinecone_fails |-> pf, load_succeeds |-> ls] :
      x \in BOOLEAN, r \in BOOLEAN, n \in {0, 301},
      i \in {"missing", "present"}, st \in StoredCounts,
      pf \in BOOLEAN, ls \in BOOLEAN}

InitSetupData ==
  /\ Quiescent("setup_data")
  /\ setup \in {[env |-> e, pc |-> "check_file", word_count |-> <<>>,
                 chunk_count |-> <<>>, loads |-> 0, returned |-> <<>>] :
                   e \in {x \in Environments :
                            x.index = "missing" => x.stored = 0}}
  /\ extraction = <<>>
  /\ reprompting = <<>>
  /\ chat = <<>>

SetupUnchanged == UNCHANGED <<consultVars, extraction, reprompting, chat>>

\* if not data_file.exists(): return False
DataFileNotFound ==
  /\ setup.pc = "check_file"
  /\ ~setup.env.exists
  /\ setup' = [setup EXCEPT !.returned = <<FALSE>>, !.pc = "done"]
  /\ SetupUnchanged

\* word_count, chunk_count = check_data_chunks()
ValidateDataChunks ==
  /\ setup.pc = "check_file"
  /\ setup.env.exists
  /\ setup' = [setup EXCEPT
        !.word_count = check_data_chunks(setup.env).word_count,
        !.chunk_count = check_data_chunks(setup.env).chunk_count,
        !.pc = "validated"]
  /\ SetupUnchanged

\* else branch of `if word_count and chunk_count`: return False
CouldNotValidate ==
  /\ setup.pc = "validated"
  /\ ~(Truthy(setup.word_count) /\ Truthy(setup.chunk_count))
  /\ setup' = [setup EXCEPT !.returned = <<FALSE>>, !.pc = "done"]
  /\ SetupUnchanged

\* if chunk_count < 100: load_data_to_pinecone(); then return True
LoadDataToPinecone ==
  /\ setup.pc = "validated"
  /\ Truthy(setup.word_count) /\ Truthy(setup.chunk_count)
  /\ setup.chunk_count[1] < LoadThreshold
  /\ setup' = [setup EXCEPT !.loads = setup.loads + 1,
                            !.returned = <<TRUE>>, !.pc = "done"]
  /\ SetupUnchanged

\* else: data already loaded; then return True
DataAlreadyLoaded ==
  /\ setup.pc = "validated"
  /\ Truthy(setup.word_count) /\ Truthy(setup.chunk_count)
  /\ setup.chunk_count[1] >= LoadThreshold
  /\ setup' = [setup EXCEPT !.returned = <<TRUE>>, !.pc = "done"]
  /\ SetupUnchanged

NextSetupData ==
  \/ DataFileNotFound
  \/ ValidateDataChunks
  \/ CouldNotValidate
  \/ LoadDataToPinecone
  \/ DataAlreadyLoaded

SpecSetupData == InitSetupData /\ [][NextSetupData]_vars

---------------------------------------------------------------------------
(* setup_and_run.py: the start-up script                                   *)

InitSetupAndRun ==
  /\ Quiescent("setup_and_run")
  /\ setup \in {[env |-> e, pc |-> "check_data", vector_count |-> <<>>,
                 raised |-> FALSE, loads |-> 0, loaded |-> <<>>,
                 server_started |-> FALSE] :
                   e \in {x \in Environments :
                            /\ x.exists
                            /\ ~x.pinecone_fails
                            /\ x.index = "missing" => x.stored = 0}}
  /\ extraction = <<>>
  /\ reprompting = <<>>
  /\ chat = <<>>

\* check_data_chunks(): its report is printed and its result dropped
ReportDataChunks ==
  /\ setup.pc = "check_data"
  /\ setup' = [setup EXCEPT !.pc = "list_indexes"]
  /\ SetupUnchanged

\* if "rag-index" in pc.list_indexes().names(): index = pc.Index("rag-index")
IndexFound ==
  /\ setup.pc = "list_indexes"
  /\ setup.env.index = "present"
  /\ setup' = [setup EXCEPT !.pc = "describe_index_stats"]
  /\ SetupUnchanged

\* vector_count = stats['total_vector_count']
ReadVectorCount ==
  /\ setup.pc = "describe_index_stats"
  /\ setup' = [setup EXCEPT !.vector_count = <<setup.env.stored>>,
                            !.pc = "compare"]
  /\ SetupUnchanged

\* Pinecone(...), list_indexes or describe_index_stats raises inside the try
PineconeRaises ==
  /\ setup.pc \in {"list_indexes", "describe_index_stats"}
  /\ setup' = [setup EXCEPT !.raised = TRUE, !.pc = "except"]
  /\ SetupUnchanged

\* load_data_properly(): it catches its own exceptions and returns a boolean
LoadDataProperly(from) ==
  /\ setup.pc = from
  /\ setup' = [setup EXCEPT !.loads = setup.loads + 1,
                            !.loaded = <<setup.env.load_succeeds>>,
                            !.pc = "start_server"]
  /\ SetupUnchanged

\* variant: any reported count, zero included, skips the load
SkipLoad_OnAnyCount ==
  /\ setup.pc = "compare"
  /\ setup.vector_count[1] >= 0
  /\ setup' = [setup EXCEPT !.pc = "start_server"]
  /\ SetupUnchanged

\* if vector_count > 0: data already loaded, skipping the load
SkipLoad ==
  /\ setup.pc = "compare"
  /\ setup.vector_count[1] > 0
  /\ setup' = [setup EXCEPT !.pc = "start_server"]
  /\ SetupUnchanged

\* else: the index exists but is empty
LoadIntoEmptyIndex ==
  /\ setup.vector_count # <<>>
  /\ setup.vector_count[1] <= 0
  /\ LoadDataProperly("compare")

\* else of the outer if: the index was not found
LoadIntoNewIndex ==
  /\ setup.env.index = "missing"
  /\ LoadDataProperly("list_indexes")

\* except Exception: loading data anyway
LoadAnyway == LoadDataProperly("except")

\* uvicorn.run(app, ...)
StartWebServer ==
  /\ setup.pc = "start_server"
  /\ setup' = [setup EXCEPT !.server_started = TRUE, !.pc = "serving"]
  /\ SetupUnchanged

NextSetupAndRun ==
  \/ ReportDataChunks
  \/ IndexFound
  \/ ReadVectorCount
  \/ PineconeRaises
  \/ SkipLoad
  \/ LoadIntoEmptyIndex
  \/ LoadIntoNewIndex
  \/ LoadAnyway
  \/ StartWebServer

SpecSetupAndRun == InitSetupAndRun /\ [][NextSetupAndRun]_vars

---------------------------------------------------------------------------
(* process_query's result construction on its own: two calls of one agent, *)
(* each fed a possible outcome of the generation and reprompting step      *)

\* the returns of the loop: any final score after 0 to MaxAttemptsBound attempts,
\* the earlier attempts having scored below the threshold
LoopReturns ==
  {[final_response |-> 1, attempts |-> 0, quality_scores |-> <<>>]} \cup
  {[final_response |-> n, attempts |-> n,
    quality_scores |-> [i \in 1..n |-> IF i = n THEN s ELSE e]] :
      n \in 1..MaxAttemptsBound, s \in 0..100,
      e \in {x \in Scores : x < AcceptThreshold}}

InitResponse ==
  /\ question = <<>>
  /\ op = "respond"
  /\ opc = "idle"
  /\ maxAttempts = MaxAttemptsBound
  /\ top_agents = 2
  /\ classified = "none"
  /\ context = "none"
  /\ retrievals = 0
  /\ agent = "general"
  /\ apc = "idle"
  /\ loopState = "Idle"
  /\ invocation = 0
  /\ calls = 0
  /\ current = 0
  /\ history = <<>>
  /\ lastError = "none"
  /\ loopResult = <<>>
  /\ responses = <<>>
  /\ result = <<>>
  /\ invoked = <<>>
  /\ cancelledAt = -1
  /\ config = StartupConfig
  /\ requests = <<>>
  /\ ScriptsIdle

\* the try branch ran to its return; loopResult logs what the loop returned
ProcessQueryReturns ==
  /\ op = "respond"
  /\ Len(responses) < 2
  /\ \E r \in LoopReturns :
       /\ responses' = Append(responses, SuccessResponse(agent, r))
       /\ loopResult' = Append(loopResult, <<r>>)
  /\ invocation' = invocation + 1
  /\ UNCHANGED <<question, classified, op, opc, context, retrievals, agent,
                 apc, loopState, calls, current, history, lastError, result,
                 maxAttempts, top_agents, invoked, cancelledAt, config,
                 requests, scriptVars>>

\* generation raised and the except branch ran; loopResult logs an empty entry
ProcessQueryFallsBack ==
  /\ op = "respond"
  /\ Len(responses) < 2
  /\ responses' = Append(responses, FallbackResponse(agent))
  /\ loopResult' = Append(loopResult, <<>>)
  /\ invocation' = invocation + 1
  /\ UNCHANGED <<question, classified, op, opc, context, retrievals, agent,
                 apc, loopState, calls, current, history, lastError, result,
                 maxAttempts, top_agents, invoked, cancelledAt, config,
                 requests, scriptVars>>

NextResponse == ProcessQueryReturns \/ ProcessQueryFallsBack

SpecResponse == InitResponse /\ [][NextResponse]_vars

---------------------------------------------------------------------------
(* Properties of classify_query, checked under SpecClassify *)

\* number of keywords of category cat occurring in the lowercased question
Hits(cat) ==
  Cardinality({i \in 1..Len(classification_keywords[cat]) :
     \E j \in 1..Len(question) :
        /\ j + Len(classification_keywords[cat][i]) - 1 <= Len(question)
        /\ \A k \in 1..Len(classification_keywords[cat][i]) :
              LowerChar(question[j + k - 1]) = classification_keywords[cat][i][k]})

NonEmergency == {"DIAGNOSIS", "TREATMENT", "PREVENTION", "PROCEDURE"}

PriorityOrder == <<"DIAGNOSIS", "TREATMENT", "PREVENTION", "PROCEDURE">>

\* C1: a question whose lowercased text contains an Emergency keyword is
\* classified EMERGENCY, however many keywords of other categories it contains.
C1_EmergencyPreempts ==
  (classified # "none" /\ Hits("EMERGENCY") > 0) => classified = "emergency"

\* an adversarial mix: one Emergency keyword against two keywords of another category
C1_Witness ==
  /\ classified = "emergency"
  /\ Hits("EMERGENCY") = 1
  /\ \E c \in NonEmergency : Hits(c) >= 2

\* C2: without an Emergency keyword and with at least one hit, the result is the
\* first category in the order Diagnosis, Treatment, Prevention, Procedure whose
\* hit count is the maximum over all categories.
C2_FirstMaxInPriorityOrder ==
  (/\ classified # "none"
   /\ Hits("EMERGENCY") = 0
   /\ \E c \in NonEmergency : Hits(c) > 0)
  => \E i \in 1..Len(PriorityOrder) :
       /\ classified = QueryTypeValue[PriorityOrder[i]]
       /\ \A c \in NonEmergency : Hits(c) <= Hits(PriorityOrder[i])
       /\ \A j \in 1..(i - 1) : Hits(PriorityOrder[j]) < Hits(PriorityOrder[i])

\* a tie between two categories, neither being the first of the order
C2_Witness ==
  /\ classified = "treatment"
  /\ Hits("EMERGENCY") = 0
  /\ Hits("DIAGNOSIS") = 0
  /\ Hits("TREATMENT") = 1
  /\ Hits("PREVENTION") = 1

\* C3: classify_query returns a QueryType for every string, the empty one
\* included, and returns GENERAL exactly when no keyword of any category occurs.
C3_TotalAndGeneralIffNoHit ==
  classified # "none" =>
    /\ classified \in QueryType
    /\ (classified = "general") <=>
          (Hits("EMERGENCY") = 0 /\ \A c \in NonEmergency : Hits(c) = 0)

\* the empty question is classified GENERAL
C3_Witness == question = <<>> /\ classified = "general"

---------------------------------------------------------------------------
(* Properties of process_query and the orchestrator, checked under Spec *)

LastResponse == responses[Len(responses)]

HistoryMax ==
  CHOOSE m \in {history[i].score : i \in 1..Len(history)} :
    \A i \in 1..Len(history) : history[i].score <= m

\* C4: an agent invocation makes at most maxAttempts completion-provider calls,
\* the initial generation call of process_query included.
C4_CallsWithinBudget == calls <= maxAttempts

\* the whole budget of at least two calls was spent
C4_Witness ==
  /\ maxAttempts >= 2
  /\ calls = maxAttempts
  /\ apc = "returned"

\* C5: when the budget is exhausted below the threshold, the returned answer is
\* an attempt with the maximal score of the history and the reported
\* quality_score is that attempt's own score.
C5_BestOfWithOwnScore ==
  (apc = "returned" /\ loopState = "Exhausted") =>
     /\ ~LastResponse.content.fallback
     /\ \E i \in 1..Len(history) :
          /\ history[i].text = LastResponse.content.text
          /\ history[i].score = HistoryMax
          /\ LastResponse.quality_score = history[i].score

\* C6: once an attempt scores at or above the threshold the loop is Accepted, no
\* further provider call is made in that invocation, and the accepted attempt
\* is the one returned.
C6_AcceptedStopsAndReturns ==
  /\ []((\E i \in 1..Len(history) : history[i].score >= AcceptThreshold) =>
          /\ loopState = "Accepted"
          /\ history[Len(history)].score >= AcceptThreshold
          /\ apc = "returned" =>
               LastResponse.content = GeneratedText(history[Len(history)].text))
  /\ [][((\E i \in 1..Len(history) : history[i].score >= AcceptThreshold)
          /\ invocation' = invocation) => calls' = calls]_vars

\* an answer accepted on a reprompting round was returned
C6_Witness ==
  /\ loopState = "Accepted"
  /\ Len(history) >= 2
  /\ apc = "returned"

FirstRoundFailed == calls = 1 /\ lastError # "none" /\ history = <<>>

\* C7 as stated: when the first generation round of the routed agent fails,
\* process_consultation returns the fallback message with confidence 0 and
\* category General, whichever agent was routed to.
C7_FallbackMarkedGeneral ==
  (op = "consult" /\ opc = "done" /\ FirstRoundFailed) =>
     /\ result[1].content = FallbackMessage
     /\ result[1].confidence = 0
     /\ result[1].agent_type = "general"

\* the agent the routing table binds to the question's category
RoutedAgent ==
  IF Hits("EMERGENCY") > 0 THEN "emergency"
  ELSE IF \A c \in NonEmergency : Hits(c) = 0 THEN "general"
  ELSE IF \A c \in NonEmergency : Hits(c) <= Hits("DIAGNOSIS") THEN "diagnostic"
  ELSE IF \A c \in NonEmergency : Hits(c) <= Hits("TREATMENT") THEN "treatment"
  ELSE IF \A c \in NonEmergency : Hits(c) <= Hits("PREVENTION") THEN "prevention"
  ELSE "treatment"

\* C7 amended: when the first generation round of the routed agent fails,
\* process_consultation returns the fallback message with confidence 0 and the
\* agent type of the specialist the question was routed to.
C7_FallbackKeepsRoutedAgent ==
  (op = "consult" /\ opc = "done" /\ FirstRoundFailed) =>
     /\ result[1].content = FallbackMessage
     /\ result[1].confidence = 0
     /\ result[1].agent_type = RoutedAgent

\* the first round of a specialist other than General failed
C7_Witness ==
  /\ op = "consult"
  /\ opc = "done"
  /\ FirstRoundFailed
  /\ agent = "emergency"

\* C8: process_consultation and get_multi_agent_consensus never let an exception
\* escape, whichever collaborator fails.
C8_NoExceptionEscapes == opc # "raised"

\* C9: after an invalid_request error the invocation makes no further provider
\* call and the caller receives the fallback, never generated text.
C9_InvalidRequestIsTerminal ==
  /\ []((lastError = "invalid_request" /\ apc = "returned") =>
          /\ LastResponse.content = FallbackMessage
          /\ LastResponse.confidence = 0)
  /\ [][(lastError = "invalid_request" /\ invocation' = invocation)
          => calls' = calls]_vars

\* an invalid request on a reprompting round, after text had been generated
C9_Witness ==
  /\ lastError = "invalid_request"
  /\ Len(history) >= 1
  /\ apc = "returned"

\* C10: a transient or rate-limited error on a round after the first makes the
\* agent return the text of an earlier successful attempt with confidence > 0.
C10_TransientKeepsEarlierAttempt ==
  (apc = "returned" /\ lastError \in {"transient", "rate_limited"} /\ calls > 1) =>
     /\ ~LastResponse.content.fallback
     /\ \E i \in 1..Len(history) : history[i].text = LastResponse.content.text
     /\ LastResponse.confidence > 0

\* a rate-limit error on the second round after a first answer scoring 0
C10_Witness ==
  /\ apc = "returned"
  /\ lastError = "rate_limited"
  /\ calls = 2
  /\ history[1].score = 0

---------------------------------------------------------------------------
(* Properties of the orchestrator, checked under Spec *)

\* the category of the question, from the keyword hits
ExpectedCategory ==
  IF Hits("EMERGENCY") > 0 THEN "emergency"
  ELSE IF \A c \in NonEmergency : Hits(c) = 0 THEN "general"
  ELSE IF \A c \in NonEmergency : Hits(c) <= Hits("DIAGNOSIS") THEN "diagnosis"
  ELSE IF \A c \in NonEmergency : Hits(c) <= Hits("TREATMENT") THEN "treatment"
  ELSE IF \A c \in NonEmergency : Hits(c) <= Hits("PREVENTION") THEN "prevention"
  ELSE "procedure"

\* C13: process_consultation invokes exactly one agent exactly once, the agent
\* bound to the question's category, and returns that agent's response unchanged.
C13_OneRoutedAgentUnchanged ==
  op = "consult" =>
     /\ invocation <= 1
     /\ Len(invoked) = invocation
     /\ opc = "done" =>
          /\ invocation = 1
          /\ invoked[1].agent = RoutedAgent
          /\ Len(responses) = 1
          /\ result = <<responses[1]>>
          /\ result[1].agent_type = invoked[1].agent

\* a consultation routed to the prevention agent returned a generated answer
C13_Witness ==
  /\ op = "consult"
  /\ opc = "done"
  /\ invoked[1].agent = "prevention"
  /\ ~result[1].content.fallback

\* a specialist of its own for each of the six categories
OwnAgent ==
  ("diagnosis" :> "diagnostic") @@ ("treatment" :> "treatment") @@
  ("prevention" :> "prevention") @@ ("emergency" :> "emergency") @@
  ("procedure" :> "procedure") @@ ("general" :> "general")

\* C14 as stated: each of the six categories has its own specialist, so the
\* category carried by the returned AgentResponse is the classified category.
C14_OneSpecialistPerCategory ==
  (op = "consult" /\ opc = "done") =>
     result[1].agent_type = OwnAgent[ExpectedCategory]

\* C14 amended: the six categories are served by five specialists; Diagnosis,
\* Prevention, Emergency and General have their own, Treatment and Procedure
\* share the treatment agent, and the returned AgentResponse carries the agent
\* type the routing table gives for the classified category.
C14_FiveSpecialistsProcedureShared ==
  (op = "consult" /\ opc = "done") =>
     /\ result[1].agent_type \in AgentType
     /\ result[1].agent_type =
          IF ExpectedCategory = "procedure" THEN "treatment"
          ELSE OwnAgent[ExpectedCategory]

\* a Procedure question answered by the treatment agent
C14_Witness ==
  /\ op = "consult"
  /\ opc = "done"
  /\ ExpectedCategory = "procedure"
  /\ result[1].agent_type = "treatment"

Key(r) == r.quality_score * r.confidence

\* C15: get_multi_agent_consensus returns one of the gathered candidates, whose
\* quality_score x confidence is at least that of every other candidate.
C15_ConsensusReturnsMaximal ==
  (op = "consensus" /\ opc = "done") =>
     \E i \in 1..Len(responses) :
        /\ result[1] = responses[i]
        /\ \A j \in 1..Len(responses) : Key(responses[j]) <= Key(result[1])

\* the primary treatment response beats a general response with a smaller product
C15_Witness ==
  /\ op = "consensus"
  /\ opc = "done"
  /\ Len(responses) = 2
  /\ responses[1].agent_type = "treatment"
  /\ Key(responses[2]) > 0
  /\ Key(responses[1]) > Key(responses[2])
  /\ result[1].agent_type = "treatment"

\* C16: when the primary and the General response have equal products, both
\* being 0 after two failures included, the primary response is returned.
C16_TieGoesToPrimary ==
  (/\ op = "consensus"
   /\ opc = "done"
   /\ Len(responses) = 2
   /\ Key(responses[1]) = Key(responses[2]))
  => result[1] = responses[1]

\* both agents failed and the routed agent's fallback was returned
C16_Witness ==
  /\ op = "consensus"
  /\ opc = "done"
  /\ Len(responses) = 2
  /\ responses[1].content = FallbackMessage
  /\ responses[2].content = FallbackMessage
  /\ result[1].agent_type = "emergency"

\* C17: in one get_multi_agent_consensus call the General agent runs as
\* secondary iff the routed agent is not General, every agent receives the
\* context of the single retrieval call, and at most 2 agents are invoked
\* whatever top_agents is.
C17_SecondaryIffNotGeneral ==
  op = "consensus" =>
     /\ Len(invoked) <= 2
     /\ retrievals <= 1
     /\ \A i \in 1..Len(invoked) : invoked[i].context = context
     /\ Len(invoked) = 2 =>
          (invoked[1].agent # "general" /\ invoked[2].agent = "general")
     /\ opc = "done" =>
          /\ retrievals = 1
          /\ (Len(invoked) = 2) <=> (invoked[1].agent # "general")

\* two agents ran on a non-empty context although top_agents was 1
C17_Witness ==
  /\ op = "consensus"
  /\ opc = "done"
  /\ top_agents = 1
  /\ context = "ctx"
  /\ Len(invoked) = 2

\* C18: in consensus mode the selection runs only after every started agent
\* invocation has returned, and the primary result is never returned while a
\* secondary agent is due or running.
C18_ArbitrationAfterAllAgents ==
  /\ []((op = "consensus" /\ opc = "done") =>
          /\ Len(responses) = invocation
          /\ invoked[1].agent # "general" => Len(responses) = 2)
  /\ [][(op = "consensus" /\ opc # "done" /\ opc' = "done") =>
          (apc = "returned" /\ Len(responses) = invocation)]_vars

\* the primary response won after a secondary agent that needed several rounds
C18_Witness ==
  /\ op = "consensus"
  /\ opc = "done"
  /\ Len(responses) = 2
  /\ result[1] = responses[1]
  /\ calls >= 2

---------------------------------------------------------------------------
(* Properties of the AgentResponse fields, checked under SpecResponse *)

Succeeded(i) == loopResult[i] # <<>>

\* C11: every AgentResponse has confidence 0 or within [0.1, 1.0]; it is 0
\* exactly when generation failed, and then the content is the fallback message;
\* it is at least 0.1 whenever generation succeeded, also with a final score of
\* 0 or an empty score history.
C11_ConfidenceZeroIffFailed ==
  \A i \in 1..Len(responses) :
     /\ responses[i].confidence = 0
          \/ (10 <= responses[i].confidence /\ responses[i].confidence <= 100)
     /\ (responses[i].confidence = 0) <=> ~Succeeded(i)
     /\ (responses[i].content = FallbackMessage) <=> ~Succeeded(i)
     /\ Succeeded(i) => responses[i].confidence >= 10

\* a success with an empty score history next to a success with final score 0
C11_Witness ==
  /\ Len(responses) = 2
  /\ Succeeded(1) /\ loopResult[1][1].quality_scores = <<>>
  /\ responses[1].confidence = 50
  /\ Succeeded(2) /\ responses[2].quality_score = 0
  /\ responses[2].confidence = 10

Scored(i) == Succeeded(i) /\ Len(loopResult[i][1].quality_scores) >= 1

---------------------------------------------------------------------------
(* Cancellation, checked under SpecCancel *)

\* C19 as stated: once the call is cancelled while a round is in flight the loop
\* makes no further provider call, returns the best attempt gathered so far, and
\* does not count the cancelled round in attempts used.
C19_CancelStopsLoop ==
  cancelledAt >= 0 =>
     /\ calls = cancelledAt
     /\ apc = "returned" =>
          /\ LastResponse.attempts_used <= cancelledAt
          /\ \/ LastResponse.content = FallbackMessage
             \/ \E i \in 1..Len(history) :
                  /\ history[i].text = LastResponse.content.text
                  /\ history[i].score = HistoryMax


---------------------------------------------------------------------------
(* Shared configuration, checked under SpecShared *)

ExpectedPromptTail(r, query_type) ==
  <<Block("persona", base_persona), Block("question", r.user_question)>>
  \o (IF r.context = "" THEN <<>> ELSE <<Block("context", <<r.context>>)>>)
  \o <<Block("template", reasoning_templates[query_type]),
       Block("requirements", <<"CRITICAL RESPONSE REQUIREMENTS",
                               "FORMATTING EXAMPLES">>)>>

\* what request r returns when it is the only one the process ever handles
ExpectedCategoryOf(r) == classify_query(r.user_question)

ExpectedPromptOf(r) ==
  IF r.kind = "process_query"
  THEN <<Block("persona", base_persona), Block("specialization", <<agent>>)>>
       \o ExpectedPromptTail(r, classify_query(r.user_question))
  ELSE ExpectedPromptTail(r, r.query_type)

\* C20: handling a question never changes the keyword table, the persona text
\* or the templates, and under every interleaving of classify_query,
\* get_chain_of_thought_prompt and process_query calls each finished call
\* returns what its own inputs determine, whatever the other calls did.
C20_SharedConfigurationReadOnly ==
  /\ config = StartupConfig
  /\ \A i \in DOMAIN requests :
        requests[i].pc = "done" =>
           IF requests[i].kind = "classify_query"
           THEN requests[i].category = ExpectedCategoryOf(requests[i])
           ELSE requests[i].prompt = ExpectedPromptOf(requests[i])

\* a process_query call and a get_chain_of_thought_prompt call for the same
\* query type and different questions both ran to their end on one agent
C20_Witness ==
  /\ requests[1].kind = "process_query"
  /\ requests[1].pc = "done"
  /\ requests[2].kind = "get_chain_of_thought_prompt"
  /\ requests[2].pc = "done"
  /\ requests[2].query_type = requests[1].query_type
  /\ requests[2].user_question # requests[1].user_question


---------------------------------------------------------------------------
(* Reasoning steps, checked under SpecExtract *)

\* a line begins with a list marker or with a numeral followed by a full stop
Digits == {"0", "1", "2", "3", "4", "5", "6", "7", "8", "9"}

BeginsWithMarker(line) ==
  /\ line # <<>>
  /\ \/ line[1] \in {"(bullet)", "-", "*"}
     \/ Len(line) >= 2 /\ line[1] \in Digits /\ line[2] = "."

\* a line of the answer, without the white space around it
Stripped(line) ==
  LET inner == {i \in 1..Len(line) : line[i] \notin {" ", "\t", "\n"}}
  IN IF inner = {} THEN <<>>
     ELSE SubSeq(line,
                 CHOOSE i \in inner : \A j \in inner : i <= j,
                 CHOOSE i \in inner : \A j \in inner : i >= j)

\* the entries are the first up-to-5 lines, in order, picked by the test Q
FirstFive(Q(_)) ==
  LET ls   == extraction.lines
      pick == {i \in 1..Len(ls) : Q(Stripped(ls[i]))}
      nth(k) == CHOOSE i \in pick : Cardinality({j \in pick : j < i}) = k - 1
      n    == IF Cardinality(pick) < 5 THEN Cardinality(pick) ELSE 5
  IN extraction.reasoning_steps = [k \in 1..n |-> Stripped(ls[nth(k)])]

\* C21 as stated: the reasoning steps are exactly the first up-to-5 lines of the
\* answer, in order, that begin with a list marker or an ordinal numeral; no
\* line without such a marker is included.
C21_OnlyMarkedLines ==
  extraction.pc = "done" => FirstFive(BeginsWithMarker)

---------------------------------------------------------------------------
(* The reprompt, checked under SpecReprompt *)

BlocksOf(prompt, kind) ==
  {prompt[i] : i \in {j \in 1..Len(prompt) : prompt[j].kind = kind}}

TextsOf(prompt) == {prompt[i].text : i \in 1..Len(prompt)}

\* C22 as stated: the reprompt carries the previous answer and the itemised
\* defects of the round before, and contains the persona block and the
\* formatting rules of the original prompt exactly as that prompt did.
C22_RepromptKeepsPersonaAndRules ==
  reprompting.pc = "done" =>
     /\ reprompting.original_response \in TextsOf(reprompting.reprompt)
     /\ \E b \in BlocksOf(reprompting.reprompt, "issues") :
           /\ Len(b.text) = Len(reprompting.quality_issues)
           /\ \A i \in 1..Len(b.text) :
                 b.text[i] = "- " \o reprompting.quality_issues[i]
     /\ BlocksOf(reprompting.original_prompt, "persona") # {}
     /\ BlocksOf(reprompting.original_prompt, "persona")
           \subseteq BlocksOf(reprompting.reprompt, "persona")
     /\ BlocksOf(reprompting.original_prompt, "requirements")
           \subseteq BlocksOf(reprompting.reprompt, "requirements")


---------------------------------------------------------------------------
(* The composed prompt, checked under SpecShared *)

ComposeKinds == {"get_chain_of_thought_prompt", "new_instance_prompt"}

C24_ContextBlockIffContext ==
  \A i \in DOMAIN requests :
     requests[i].pc = "done" /\ requests[i].kind # "classify_query" =>
        LET r == requests[i]
        IN /\ (BlocksOf(r.prompt, "context") # {}) <=> (r.context # "")
           /\ r.context # "" =>
                 BlocksOf(r.prompt, "context") = {Block("context", <<r.context>>)}
           /\ Block("persona", base_persona) \in BlocksOf(r.prompt, "persona")
           /\ BlocksOf(r.prompt, "template") =
                 {Block("template", reasoning_templates[r.query_type])}
           /\ BlocksOf(r.prompt, "question") =
                 {Block("question", r.user_question)}

\* one prompt was composed with a context and one with the empty context
C24_Witness ==
  /\ requests[1].pc = "done" /\ requests[2].pc = "done"
  /\ requests[1].kind = "get_chain_of_thought_prompt"
  /\ requests[2].kind = "get_chain_of_thought_prompt"
  /\ requests[1].context = ""
  /\ requests[2].context = "ctx"
  /\ BlocksOf(requests[1].prompt, "context") = {}
  /\ BlocksOf(requests[2].prompt, "context") # {}


---------------------------------------------------------------------------
(* The prompts of the two consensus agents, checked under Spec *)

\* the prompt without its specialization block
RECURSIVE WithoutSpecialization(_)
WithoutSpecialization(prompt) ==
  IF prompt = <<>> THEN <<>>
  ELSE (IF Head(prompt).kind = "specialization" THEN <<>> ELSE <<Head(prompt)>>)
       \o WithoutSpecialization(Tail(prompt))

\* C25: in consensus mode the General agent called second composes with the
\* reasoning template of the category classified from the question, the one
\* the primary agent uses, so the two prompts differ in the specialization
\* block only and never in the template.  The template is compared with the
\* question's category when a process_query call is entered, and the two
\* recorded prompts are compared with each other from then on.
C25_SecondaryUsesClassifiedTemplate ==
  op = "consensus" =>
     /\ apc = "generate" =>
           BlocksOf(invoked[Len(invoked)].full_prompt, "template") =
              {[kind |-> "template", text |-> <<"RESPONSE FORMAT", ExpectedCategory>>]}
     /\ Len(invoked) = 2 =>
           /\ invoked[2].agent = "general"
           /\ BlocksOf(invoked[1].full_prompt, "template") # {}
           /\ WithoutSpecialization(invoked[1].full_prompt) =
                 WithoutSpecialization(invoked[2].full_prompt)
           /\ BlocksOf(invoked[1].full_prompt, "specialization") #
                 BlocksOf(invoked[2].full_prompt, "specialization")

\* a procedure question went to the Treatment agent and then to the General
\* agent, both with a retrieved context
C25_Witness ==
  /\ op = "consensus"
  /\ Len(invoked) = 2
  /\ ExpectedCategory = "procedure"
  /\ invoked[1].agent = "treatment"
  /\ invoked[2].agent = "general"
  /\ invoked[1].context = "ctx"
  /\ result # <<>>


---------------------------------------------------------------------------
(* The /chat handler, checked under SpecChat *)

\* the session id the request is served under once it is known
ResolvedSessionId ==
  IF chat.request_session_id \in {"None", ""}
  THEN "session-of-" \o chat.user_id
  ELSE chat.request_session_id

\* C26: whichever step of the /chat handler throws, the handler returns the
\* technical-difficulties response, under the session id already resolved or
\* under "error" when the failure came before one was resolved; a successful
\* request that supplied a session id is answered under that id.
C26_ChatAlwaysAnswers ==
  /\ chat.pc \in {ChatSteps[i] : i \in 1..Len(ChatSteps)} \cup {"except", "done"}
  /\ chat.pc = "done" =>
        /\ Len(chat.response) = 1
        /\ chat.raised_at = "resolve_session" =>
              chat.response[1] = [response |-> TechnicalDifficulties,
                                  session_id |-> "error"]
        /\ chat.raised_at \notin {"none", "resolve_session"} =>
              chat.response[1] = [response |-> TechnicalDifficulties,
                                  session_id |-> ResolvedSessionId]
        /\ chat.raised_at = "none" =>
              /\ chat.response[1].response = chat.content
              /\ chat.request_session_id \notin {"None", ""} =>
                    chat.response[1].session_id = chat.request_session_id

\* saving the conversation failed for a request that brought its session id
C26_Witness ==
  /\ chat.pc = "done"
  /\ chat.raised_at = "save_conversation"
  /\ chat.request_session_id = "s1"
  /\ chat.response[1].session_id = "s1"
  /\ chat.response[1].response = TechnicalDifficulties


---------------------------------------------------------------------------
(* The chunk count, checked under SpecChunks *)

\* C29: for every word count the chunk count check_data_chunks expects equals
\* the number of chunks load_data_properly builds from the same text, so an
\* index into which every chunk was stored is reported as a perfect match.
C29_ExpectedEqualsBuilt ==
  setup.pc = "done" =>
     /\ setup.expected = Len(setup.chunks)
     /\ setup.stored = Len(setup.chunks) => setup.verdict = "Perfect match"
     /\ \A k \in 1..Len(setup.chunks) :
           setup.chunks[k] >= 1 /\ setup.chunks[k] <= 300

\* 600 words: two full chunks and no third one, all stored
C29_Witness ==
  /\ setup.pc = "done"
  /\ setup.words = 600
  /\ Len(setup.chunks) = 2
  /\ setup.stored = 2
  /\ setup.verdict = "Perfect match"


---------------------------------------------------------------------------
(* setup_data, checked under SpecSetupData *)

\* the number of chunks stored in the vector index when the script starts
StoredAtStart ==
  IF setup.env.index = "present" THEN setup.env.stored ELSE 0

\* C27: with the data file in place, setup_data loads the data whenever fewer
\* than 100 chunks are stored in the index, an empty or missing index
\* included, and returns True after a successful load.
C27_LoadsBelowThreshold ==
  /\ setup.pc = "done"
  /\ setup.env.exists /\ setup.env.readable /\ setup.env.words > 0
  /\ ~setup.env.pinecone_fails
  /\ StoredAtStart < 100
  => /\ setup.loads = 1
     /\ setup.env.load_succeeds => setup.returned = <<TRUE>>


---------------------------------------------------------------------------
(* The start-up script, checked under SpecSetupAndRun *)

\* the index exists, reports at least one vector, and the check went through
DataFound ==
  /\ setup.env.index = "present"
  /\ setup.env.stored > 0
  /\ ~setup.raised

\* C28: setup_and_run calls load_data_properly at most once per start-up; it
\* skips the load exactly when "rag-index" exists and reports more than 0
\* vectors, and a missing index, an empty index and a failed check each lead
\* to exactly one load before the web server starts.
C28_LoadOnceUnlessDataFound ==
  /\ setup.loads <= 1
  /\ setup.pc \in {"start_server", "serving"} =>
        /\ (setup.loads = 0) <=> DataFound
        /\ ~DataFound => setup.loads = 1
  /\ setup.server_started => setup.pc = "serving"

\* the check of an existing, filled index failed and the data was loaded once
\* before the server started
C28_Witness ==
  /\ setup.server_started
  /\ setup.raised
  /\ setup.env.index = "present"
  /\ setup.env.stored > 0
  /\ setup.loads = 1

====
